---------------------------- MODULE Spec2Model ----------------------------
(***************************************************************************)
(* Territory War (src/app/page.tsx): the per-frame simulation of the       *)
(* TerritoryWar component, as a state machine.                             *)
(*                                                                         *)
(* Numbers.  The code computes in IEEE doubles; the model computes in      *)
(* fixed point, one pixel being Px(1) = 100 units, and every world size,   *)
(* velocity and slider value it enumerates is chosen so that the code's    *)
(* products and quotients are whole numbers of units (the only rounding    *)
(* is in the "magnet" direction, see Magnet).  Frame timers are integers.  *)
(*                                                                         *)
(* Math.random().  createInitialBalls and the heading change read their    *)
(* draws from the stream rng, a congruential generator whose seed Init     *)
(* picks; spawnPowerUp's three draws range over the small set              *)
(* SpawnChoices.                                                           *)
(*                                                                         *)
(* Drawing (canvas calls) is left out: it reads the state and changes      *)
(* nothing, except for the per-team isAtHighScore flag, which is kept.     *)
(***************************************************************************)
EXTENDS Integers, Sequences, FiniteSets

\* ------------------------------------------------------------ constants
COLS == 20
ROWS == 12
TRAIL_LENGTH == 12
BASE_SPEED == 4
POWERUP_DURATION == 180
POWERUP_SPAWN_INTERVAL == 300
HIGHSCORE_DELAY == 600
MAX_POWERUPS == 3
PICKUP_MARGIN == 14
SPAWN_INSET == 30

\* ------------------------------------------------------------ bounds
\* Frames simulated.
MaxFrame == 670

\* The last frame of the longer game.
LongFrame == 1210

\* Seeds of the Math.random() stream: 0 .. NumSeeds-1.
NumSeeds == 1
\* Resize and slider events after the mount.
MaxEvents == 1
\* The user acts (resizes, moves the slider) after the frame EventFrame.
EventFrame == 350

\* ------------------------------------------------------------ numbers
Px(n) == n * 100

Abs(n) == IF n < 0 THEN -n ELSE n

Min(a, b) == IF a < b THEN a ELSE b

\* Integer part of a quotient, rounding toward zero.
Quot(a, b) == IF a < 0 THEN -((-a) \div b) ELSE a \div b

\* Math.sqrt on a non-negative integer, rounded down (bisection on lo..hi).
RECURSIVE SqrtBetween(_, _, _)
SqrtBetween(n, lo, hi) ==
  IF lo >= hi THEN lo
  ELSE LET mid == (lo + hi + 1) \div 2
       IN IF mid * mid <= n THEN SqrtBetween(n, mid, hi)
          ELSE SqrtBetween(n, lo, mid - 1)

Sqrt(n) == SqrtBetween(n, 0, 46340)

\* Math.floor(a / b) for b > 0.
Floor(a, b) == a \div b

\* ------------------------------------------------------------ types
Team == {"left", "right"}

PowerUpType == <<"split", "giant", "speed", "freeze", "magnet">>

ZeroDimensions == [width |-> 0, height |-> 0]

\* window.innerWidth x window.innerHeight when the component mounts.
MountDimensions == {[width |-> Px(200), height |-> Px(120)]}

\* ... and after a resize: a shallow strip, and a wider window.
ResizeDimensions ==
  {[width |-> Px(200), height |-> Px(18)], [width |-> Px(300), height |-> Px(120)]}

\* The slider's values, in tenths (min 0.5, max 3, step 0.1).
SpeedChoices == {10, 30}

\* spawnPowerUp's draws: Math.random() for x and for y in hundredths, and the
\* index of the type.
SpawnChoices ==
  {[fx |-> f[1], fy |-> f[2], type |-> t] :
     f \in {<<10, 0>>, <<40, 80>>}, t \in 1..5}

\* ------------------------------------------------------------ Math.random
RandomModulus == 50

\* The next state of the generator; its value d stands for Math.random() = d/50.
NextRandom(r) == (21 * r + 7) % RandomModulus

Seeds == 0..(NumSeeds - 1)

\* ------------------------------------------------------------ tiles
createInitialTiles ==
  [row \in 0..(ROWS - 1) |->
     [col \in 0..(COLS - 1) |-> IF 2 * col < COLS THEN "left" ELSE "right"]]

\* countTiles: a cell that is not "left" counts as right.
RECURSIVE CountRows(_, _, _)
CountRows(t, row, isLeft) ==
  IF row = ROWS THEN 0
  ELSE Cardinality({col \in 0..(COLS - 1) : (t[row][col] = "left") = isLeft})
       + CountRows(t, row + 1, isLeft)

countTiles(t) ==
  [left |-> CountRows(t, 0, TRUE), right |-> CountRows(t, 0, FALSE)]

\* ------------------------------------------------------------ balls
createInitialBalls(tileWidth, tileHeight, id, r) ==
  LET baseRadius == (Min(tileWidth, tileHeight) * 4) \div 10
      r1 == NextRandom(r)
      r2 == NextRandom(r1)
      \* (Math.random() - 0.5) * 2 pixels, with Math.random() = d/50
      vyOf(d) == (d - 25) * 4
  IN <<[id |-> id, x |-> (COLS * tileWidth) \div 4, y |-> (ROWS \div 2) * tileHeight,
        vx |-> Px(BASE_SPEED), vy |-> vyOf(r1), team |-> "left",
        radius |-> baseRadius, baseRadius |-> baseRadius, trail |-> <<>>,
        frozen |-> 0, giant |-> 0, speed |-> 0, isClone |-> FALSE, cloneExpires |-> 0],
       [id |-> id + 1, x |-> (3 * COLS * tileWidth) \div 4, y |-> (ROWS \div 2) * tileHeight,
        vx |-> -Px(BASE_SPEED), vy |-> vyOf(r2), team |-> "right",
        radius |-> baseRadius, baseRadius |-> baseRadius, trail |-> <<>>,
        frozen |-> 0, giant |-> 0, speed |-> 0, isClone |-> FALSE, cloneExpires |-> 0]>>

\* spawnPowerUp (spawnTime, which nothing reads, is left out).
spawnPowerUp(width, height, id, c) ==
  [id |-> id,
   x |-> Quot(c.fx * (width - Px(2 * SPAWN_INSET)), 100) + Px(SPAWN_INSET),
   y |-> Quot(c.fy * (height - Px(2 * SPAWN_INSET)), 100) + Px(SPAWN_INSET),
   type |-> PowerUpType[c.type]]

\* ball.baseRadius * 2.5
GiantRadius(baseRadius) == (baseRadius * 5) \div 2

\* ball.baseRadius * 0.7
CloneRadius(baseRadius) == (baseRadius * 7) \div 10

\* cloneExpires of a new clone: POWERUP_DURATION * 2
CloneLifetime == POWERUP_DURATION * 2

\* "Handle clone expiration": the countdown, and whether the ball is dropped.
TickClone(ball) ==
  IF ball.isClone /\ ball.cloneExpires > 0
  THEN [ball EXCEPT !.cloneExpires = @ - 1]
  ELSE ball

\* A slip: the clone dropped a frame early.
CloneExpiredEarly(before, after) ==
  before.isClone /\ before.cloneExpires > 0 /\ after.cloneExpires <= 1

CloneExpired(before, after) ==
  before.isClone /\ before.cloneExpires > 0 /\ after.cloneExpires <= 0

\* "Decrement effect timers".
DecayFrozen(ball) ==
  IF ball.frozen > 0 THEN [ball EXCEPT !.frozen = @ - 1] ELSE ball

\* A slip: the radius not set back when the timer runs out.
DecayGiantKeepsRadius(ball) ==
  IF ball.giant > 0 THEN [ball EXCEPT !.giant = @ - 1] ELSE ball

DecayGiant(ball) ==
  IF ball.giant > 0
  THEN [ball EXCEPT !.giant = @ - 1,
                    !.radius = IF ball.giant - 1 > 0
                               THEN GiantRadius(ball.baseRadius)
                               ELSE ball.baseRadius]
  ELSE ball

DecaySpeed(ball) ==
  IF ball.speed > 0 THEN [ball EXCEPT !.speed = @ - 1] ELSE ball

DecayTimers(ball) == DecaySpeed(DecayGiant(DecayFrozen(ball)))

\* "Update trail".
UpdateTrail(ball) ==
  LET pushed == Append(ball.trail, <<ball.x, ball.y>>)
  IN [ball EXCEPT !.trail = IF Len(pushed) > TRAIL_LENGTH THEN Tail(pushed) ELSE pushed]

\* A slip: frozen balls not skipped.
SkipsNothing(ball) == FALSE

\* "Skip movement if frozen".
SkipsMovement(ball) == ball.frozen > 0

\* A slip: the speed effect left out of the step.
SpeedMultOfSlider(ball, speedMultiplier) == 10 * speedMultiplier

\* speedMult, in hundredths: (ball.speed > 0 ? 2.5 : 1) * speedMultiplier.
SpeedMult(ball, speedMultiplier) ==
  (IF ball.speed > 0 THEN 25 ELSE 10) * speedMultiplier

\* ball.x += (ball.vx + magnetPullX) * speedMult, magnetPullX being always 0.
Move(ball, speedMult) ==
  [ball EXCEPT !.x = @ + Quot(ball.vx * speedMult, 100),
               !.y = @ + Quot(ball.vy * speedMult, 100)]

\* "Boundary collision": the four tests in the code's order.
BounceLeft(ball) ==
  IF ball.x - ball.radius < 0
  THEN [ball EXCEPT !.x = ball.radius, !.vx = Abs(ball.vx)]
  ELSE ball

\* A slip: the radius forgotten at the right edge.
BounceRightToEdge(ball, width) ==
  IF ball.x + ball.radius > width
  THEN [ball EXCEPT !.x = width, !.vx = -Abs(ball.vx)]
  ELSE ball

BounceRight(ball, width) ==
  IF ball.x + ball.radius > width
  THEN [ball EXCEPT !.x = width - ball.radius, !.vx = -Abs(ball.vx)]
  ELSE ball

BounceTop(ball) ==
  IF ball.y - ball.radius < 0
  THEN [ball EXCEPT !.y = ball.radius, !.vy = Abs(ball.vy)]
  ELSE ball

BounceBottom(ball, height) ==
  IF ball.y + ball.radius > height
  THEN [ball EXCEPT !.y = height - ball.radius, !.vy = -Abs(ball.vy)]
  ELSE ball

Bounce(ball, dim) ==
  BounceBottom(BounceTop(BounceRight(BounceLeft(ball), dim.width)), dim.height)

\* ------------------------------------------------------------ power-ups
(***************************************************************************)
(* The loop over ballsRef.current works on st:                             *)
(*   heap       the ball objects: heap[1..n0] are ballsRef.current, in     *)
(*              order, and the clones made in this frame follow            *)
(*   newBalls   indices into heap, in the order of the pushes              *)
(*   newTiles, hasChanges, powerUps (powerUpsRef.current), ballIdCounter,  *)
(*   rng        as in the code                                             *)
(*   moved, bounced, splits, hits, expired, ...   what the frame did, kept *)
(*              for the properties below (the code has no such record)     *)
(***************************************************************************)

\* dist < ball.radius + 14, with dist = Math.sqrt(dx * dx + dy * dy)
Touches(ball, powerUp) ==
  LET dx == ball.x - powerUp.x
      dy == ball.y - powerUp.y
      reach == ball.radius + Px(PICKUP_MARGIN)
  IN dx * dx + dy * dy < reach * reach

\* A slip: the clone's velocity mirrored instead of turned.
MakeCloneMirrored(ball, id) ==
  [id |-> id, x |-> ball.x, y |-> ball.y, vx |-> ball.vy, vy |-> ball.vx,
   team |-> ball.team, radius |-> CloneRadius(ball.baseRadius),
   baseRadius |-> CloneRadius(ball.baseRadius), trail |-> <<>>,
   frozen |-> 0, giant |-> 0, speed |-> 0, isClone |-> TRUE,
   cloneExpires |-> CloneLifetime]

\* case "split"
MakeClone(ball, id) ==
  [id |-> id, x |-> ball.x, y |-> ball.y, vx |-> -ball.vy, vy |-> ball.vx,
   team |-> ball.team, radius |-> CloneRadius(ball.baseRadius),
   baseRadius |-> CloneRadius(ball.baseRadius), trail |-> <<>>,
   frozen |-> 0, giant |-> 0, speed |-> 0, isClone |-> TRUE,
   cloneExpires |-> CloneLifetime]

\* A slip: the id counter not advanced.
SplitKeepsCounter(st, i) ==
  LET ball == st.heap[i]
  IN [st EXCEPT !.heap = Append(@, MakeClone(ball, st.ballIdCounter)),
                !.newBalls = Append(@, Len(st.heap) + 1),
                !.splits = Append(@, [parent |-> ball.id, clone |-> st.ballIdCounter,
                                      vx |-> ball.vx, vy |-> ball.vy,
                                      team |-> ball.team])]

Split(st, i) ==
  LET ball == st.heap[i]
  IN [st EXCEPT !.heap = Append(@, MakeClone(ball, st.ballIdCounter)),
                !.newBalls = Append(@, Len(st.heap) + 1),
                !.ballIdCounter = @ + 1,
                !.splits = Append(@, [parent |-> ball.id, clone |-> st.ballIdCounter,
                                      vx |-> ball.vx, vy |-> ball.vy,
                                      team |-> ball.team])]

\* case "giant"
Giant(ball) ==
  [ball EXCEPT !.giant = POWERUP_DURATION, !.radius = GiantRadius(ball.baseRadius)]

\* A slip: the effect added to what is left of it.
SpeedAccumulates(ball) == [ball EXCEPT !.speed = @ + POWERUP_DURATION]

\* case "speed"
Speed(ball) == [ball EXCEPT !.speed = POWERUP_DURATION]

\* case "freeze": the loop runs over ballsRef.current, that is heap[1..n0].
FreezeTargets(heap, n0, team) == {j \in 1..n0 : heap[j].team # team}

Freeze(st, i, n0) ==
  LET targets == FreezeTargets(st.heap, n0, st.heap[i].team)
  IN [st EXCEPT !.heap = [j \in DOMAIN st.heap |->
                            IF j \in targets
                            THEN [st.heap[j] EXCEPT !.frozen = POWERUP_DURATION]
                            ELSE st.heap[j]],
                !.hits = [j \in 1..n0 |-> IF j \in targets THEN i ELSE st.hits[j]]]

\* case "magnet": ball.team === "white" ? width * 0.75 : width * 0.25
MagnetTargetX(team, width) ==
  IF team = "white" THEN (width * 3) \div 4 ELSE width \div 4

\* The new velocity, rounded toward zero to a multiple of 4 units.
Magnet(ball, dim) ==
  LET dx == MagnetTargetX(ball.team, dim.width) - ball.x
      dy == dim.height \div 2 - ball.y
      dist == Sqrt(dx * dx + dy * dy)
  IN IF dist > 0
     THEN [ball EXCEPT !.vx = 4 * Quot(dx * Px(BASE_SPEED) * 3, 8 * dist),
                       !.vy = 4 * Quot(dy * Px(BASE_SPEED), 8 * dist)]
     ELSE ball

\* The velocities of the ball objects, for the record of a pickup.
Velocities(heap) == [j \in DOMAIN heap |-> <<heap[j].vx, heap[j].vy>>]

\* case "magnet" for heap[i], and the record of what it did.
MagnetPickup(st, i, dim) ==
  LET heap == [st.heap EXCEPT ![i] = Magnet(@, dim)]
  IN [st EXCEPT !.heap = heap,
                !.magnets = Append(@, [index |-> i, id |-> heap[i].id, team |-> heap[i].team,
                                       x |-> heap[i].x, y |-> heap[i].y,
                                       width |-> dim.width, height |-> dim.height,
                                       before |-> Velocities(st.heap),
                                       after |-> Velocities(heap)])]

\* The distance test of one power-up against the ball as it is at that
\* moment (its position, radius and timers), and its outcome.
Tested(ball, powerUp) ==
  [ball |-> ball.id, powerUp |-> powerUp.id, type |-> powerUp.type,
   dx |-> ball.x - powerUp.x, dy |-> ball.y - powerUp.y, radius |-> ball.radius,
   giant |-> ball.giant, speed |-> ball.speed,
   hit |-> Touches(ball, powerUp)]

\* One power-up of the loop "Power-up collision", for the ball heap[i].
Pickup(st, i, n0, dim, powerUp) ==
  IF ~Touches(st.heap[i], powerUp)
  THEN [st EXCEPT !.tests = Append(@, Tested(st.heap[i], powerUp))]
  ELSE LET s1 == [st EXCEPT !.tests = Append(@, Tested(st.heap[i], powerUp)),
                            !.powerUpsToRemove = @ \cup {powerUp.id},
                            !.picked = Append(@, [ball |-> st.heap[i].id,
                                                  team |-> st.heap[i].team,
                                                  powerUp |-> powerUp.id,
                                                  type |-> powerUp.type])]
       IN CASE powerUp.type = "split"  -> Split(s1, i)
            [] powerUp.type = "giant"  -> [s1 EXCEPT !.heap[i] = Giant(@)]
            [] powerUp.type = "speed"  -> [s1 EXCEPT !.heap[i] = Speed(@)]
            [] powerUp.type = "freeze" -> Freeze(s1, i, n0)
            [] powerUp.type = "magnet" -> MagnetPickup(s1, i, dim)

RECURSIVE Pickups(_, _, _, _, _, _)
Pickups(st, i, n0, dim, list, k) ==
  IF k > Len(list) THEN st
  ELSE Pickups(Pickup(st, i, n0, dim, list[k]), i, n0, dim, list, k + 1)

\* A slip: the filter keeps everything.
RemoveNothing(st) == [st EXCEPT !.powerUpsToRemove = {}]

\* powerUpsRef.current.filter(p => !powerUpsToRemove.includes(p.id))
RemovePicked(st) ==
  [st EXCEPT !.powerUps = SelectSeq(@, LAMBDA p : p.id \notin st.powerUpsToRemove),
             !.powerUpsToRemove = {}]

\* ------------------------------------------------------------ tile conversion
TileCol(ball, dim) == Floor(ball.x * COLS, dim.width)

TileRow(ball, dim) == Floor(ball.y * ROWS, dim.height)

InGrid(row, col) == row >= 0 /\ row < ROWS /\ col >= 0 /\ col < COLS

\* A slip: the names of line 300 written into the grid.
ConvertedToColour(ball) == IF ball.team = "left" THEN "green" ELSE "white"

\* The team written into the cells the ball converts.
ConvertedTo(ball) == ball.team

\* A slip: the giant's block left out.
ConvertCenterOnly(tiles, ball, row, col) ==
  [r \in 0..(ROWS - 1) |->
     IF r = row
     THEN [c \in 0..(COLS - 1) |->
             IF c = col /\ tiles[r][c] # ball.team THEN ConvertedTo(ball) ELSE tiles[r][c]]
     ELSE tiles[r]]

\* "Tile conversion": the cells at row + dr, col + dc, for dr and dc in
\* -convertRadius + 1 .. convertRadius - 1, that lie in the grid.
Convert(tiles, ball, row, col) ==
  LET convertRadius == IF ball.giant > 0 THEN 2 ELSE 1
  IN [r \in 0..(ROWS - 1) |->
        IF Abs(r - row) < convertRadius
        THEN [c \in 0..(COLS - 1) |->
                IF Abs(c - col) < convertRadius /\ tiles[r][c] # ball.team
                THEN ConvertedTo(ball)
                ELSE tiles[r][c]]
        ELSE tiles[r]]

\* "Random direction change on conversion": the test reads tilesRef.current.
ChangesDirection(current, ball, row, col) ==
  InGrid(row, col) /\ current[row][col] # ball.team

\* Math.cos(angle) * currentSpeed, Math.sin(angle) * currentSpeed for the angle
\* 2 * PI * d / 50, taken to the nearest of the eight directions that keep the
\* speed exactly: the quarter turns of (vx, vy) and of (vy, vx).
Redirect(ball, d) ==
  LET k == (8 * d) \div RandomModulus
      a == ball.vx
      b == ball.vy
      v == CASE k = 0 -> <<a, b>>   [] k = 1 -> <<b, a>>
             [] k = 2 -> <<-b, a>>  [] k = 3 -> <<-a, b>>
             [] k = 4 -> <<-a, -b>> [] k = 5 -> <<-b, -a>>
             [] k = 6 -> <<b, -a>>  [] k = 7 -> <<a, -b>>
  IN [ball EXCEPT !.vx = v[1], !.vy = v[2]]

\* ------------------------------------------------------------ one ball
\* The ball after "Boundary collision", and what the step did.
Bounced(ball, moved, dim) ==
  [id |-> ball.id, x |-> ball.x, y |-> ball.y, vx |-> ball.vx, vy |-> ball.vy,
   radius |-> ball.radius, width |-> dim.width, height |-> dim.height,
   left |-> moved.x - moved.radius < 0,
   right |-> BounceLeft(moved).x + moved.radius > dim.width,
   top |-> moved.y - moved.radius < 0,
   bottom |-> BounceTop(moved).y + moved.radius > dim.height]

\* The ball before and after lines 316-317, and the slider's value the
\* gameLoop saw.
Moved(ball, moved, speedMultiplier) ==
  [id |-> ball.id, fromX |-> ball.x, fromY |-> ball.y, vx |-> ball.vx, vy |-> ball.vy,
   speed |-> ball.speed, toX |-> moved.x, toY |-> moved.y,
   speedMultiplier |-> speedMultiplier]

\* From "Calculate speed multiplier" to the boundary collision.
MoveAndBounce(st, i, dim, speedMultiplier) ==
  LET moved == Move(st.heap[i], SpeedMult(st.heap[i], speedMultiplier))
      ball == Bounce(moved, dim)
  IN [st EXCEPT !.heap[i] = ball,
                !.moved = Append(@, Moved(st.heap[i], moved, speedMultiplier)),
                !.bounced = Append(@, Bounced(ball, moved, dim))]

\* What "Tile conversion" found for a ball: its cell, whether the ball is
\* giant, the owner of the cell in newTiles before the ball converts, and
\* whether the heading was changed.
Converted(newTiles, ball, row, col, turns) ==
  [id |-> ball.id, team |-> ball.team, giant |-> ball.giant > 0,
   row |-> row, col |-> col,
   owner |-> IF InGrid(row, col) THEN newTiles[row][col] ELSE "none",
   turned |-> turns]

\* From "Tile conversion" to newBalls.push(ball).
ConvertAndTurn(st, i, dim, current) ==
  LET ball == st.heap[i]
      col == TileCol(ball, dim)
      row == TileRow(ball, dim)
      tiles == Convert(st.newTiles, ball, row, col)
      turns == ChangesDirection(current, ball, row, col)
      r == NextRandom(st.rng)
  IN [st EXCEPT !.converted = Append(@, Converted(st.newTiles, ball, row, col, turns)),
                !.newTiles = tiles,
                !.hasChanges = @ \/ tiles # st.newTiles,
                !.rng = IF turns THEN r ELSE @,
                !.heap[i] = IF turns THEN Redirect(ball, r) ELSE ball,
                !.turned = IF turns THEN @ \cup {ball.id} ELSE @,
                !.newBalls = Append(@, i)]

\* The body of "for (const ball of ballsRef.current)" for heap[i].
ProcessBall(st, i, n0, dim, speedMultiplier, current) ==
  LET before == st.heap[i]
      ticked == TickClone(before)
  IN IF CloneExpired(before, ticked)
     THEN [st EXCEPT !.heap[i] = ticked, !.expired = @ \cup {before.id}]
     ELSE LET ball == UpdateTrail(DecayTimers(ticked))
              s1 == [st EXCEPT !.heap[i] = ball,
                               !.unGiant = IF before.giant > 0 /\ ball.giant = 0
                                           THEN @ \cup {ball.id} ELSE @]
          IN IF SkipsMovement(ball)
             THEN [s1 EXCEPT !.newBalls = Append(@, i),
                             !.skipped = @ \cup {ball.id}]
             ELSE LET s2 == MoveAndBounce(s1, i, dim, speedMultiplier)
                      s3 == RemovePicked(Pickups(s2, i, n0, dim, s2.powerUps, 1))
                  IN ConvertAndTurn(s3, i, dim, current)

RECURSIVE ProcessBalls(_, _, _, _, _, _)
ProcessBalls(st, i, n0, dim, speedMultiplier, current) ==
  IF i > n0 THEN st
  ELSE ProcessBalls(ProcessBall(st, i, n0, dim, speedMultiplier, current),
                    i + 1, n0, dim, speedMultiplier, current)

\* ------------------------------------------------------------ scores
\* A slip: > for >=.
IsAboveHighScore(frame, team, preCounts, highScores) ==
  frame > HIGHSCORE_DELAY /\ preCounts[team] > highScores[team]

\* isAtHighScore, for the team of the ball being drawn.
IsAtHighScore(frame, team, preCounts, highScores) ==
  frame > HIGHSCORE_DELAY /\ preCounts[team] >= highScores[team]

\* "Update high scores (only after delay period)".
TracksHighScores(frame) == frame > HIGHSCORE_DELAY

\* A slip: the mark overwritten by every count.
UpdateHighScoreToCount(high, count) == count

UpdateHighScore(high, count) == IF count > high THEN count ELSE high

\* ------------------------------------------------------------ state
VARIABLES
  tilesRef,          \* tilesRef.current (the tiles state follows it)
  dimensions,        \* the dimensions state: width, height
  speedMultiplier,   \* the speedMultiplier state, in tenths
  ballsRef,          \* ballsRef.current
  powerUpsRef,       \* powerUpsRef.current
  frameCountRef,     \* frameCountRef.current
  highScoresRef,     \* highScoresRef.current
  ballIdCounter,
  powerUpIdCounter,
  animationRef,      \* animationRef.current
  scheduled,         \* the gameLoop callbacks requestAnimationFrame holds
  rafCounter,        \* the next handle requestAnimationFrame returns
  rng,               \* the state of Math.random()
  events,            \* user events since the mount
  obs,               \* what the last frame did (for the properties)
  born,              \* the clones made so far: id, and the frame that made it
  frozenAt           \* the last "freeze" that hit each ball

vars ==
  <<tilesRef, dimensions, speedMultiplier, ballsRef, powerUpsRef, frameCountRef,
    highScoresRef, ballIdCounter, powerUpIdCounter, animationRef, scheduled,
    rafCounter, rng, events, obs, born, frozenAt>>

NoObs ==
  [frame |-> 0, moved |-> <<>>, bounced |-> <<>>, splits |-> <<>>, picked |-> <<>>,
   magnets |-> <<>>, converted |-> <<>>, tests |-> <<>>,
   expired |-> {}, unGiant |-> {}, skipped |-> {}, turned |-> {}, before |-> 0,
   startCounts |-> countTiles(createInitialTiles),
   startHigh |-> [left |-> (COLS * ROWS) \div 2, right |-> (COLS * ROWS) \div 2],
   isAtHighScore |-> [t \in Team |-> FALSE],
   resizedAt |-> -1]

Init ==
  /\ tilesRef = createInitialTiles
  /\ dimensions = ZeroDimensions
  /\ speedMultiplier = 10
  /\ ballsRef = <<>>
  /\ powerUpsRef = <<>>
  /\ frameCountRef = 0
  /\ highScoresRef = [left |-> (COLS * ROWS) \div 2, right |-> (COLS * ROWS) \div 2]
  /\ ballIdCounter = 0
  /\ powerUpIdCounter = 0
  /\ animationRef = 0
  /\ scheduled = {}
  /\ rafCounter = 1
  /\ rng \in Seeds
  /\ events = 0
  /\ obs = NoObs
  /\ born = {}
  /\ frozenAt = {}

\* ------------------------------------------------------------ the scheduler
\* The closure of a gameLoop: the state its render saw.
GameLoop(dim, speed) == [dimensions |-> dim, speedMultiplier |-> speed]

\* The gameLoop effect's cleanup and body, run when gameLoop or dimensions
\* change: cancelAnimationFrame(animationRef.current), then
\* requestAnimationFrame(gameLoop) when the world has a size.
StartsLoop(dim) == dim.width > 0 /\ dim.height > 0

\* A slip: the cleanup left out, the pending callback kept.
RestartWithoutCancel(dim, speed) ==
  IF StartsLoop(dim)
  THEN /\ scheduled' = scheduled \cup {[handle |-> rafCounter, loop |-> GameLoop(dim, speed)]}
       /\ animationRef' = rafCounter
       /\ rafCounter' = rafCounter + 1
  ELSE UNCHANGED <<scheduled, animationRef, rafCounter>>

Restart(dim, speed) ==
  LET kept == {cb \in scheduled : cb.handle # animationRef}
  IN IF StartsLoop(dim)
     THEN /\ scheduled' = kept \cup {[handle |-> rafCounter, loop |-> GameLoop(dim, speed)]}
          /\ animationRef' = rafCounter
          /\ rafCounter' = rafCounter + 1
     ELSE /\ scheduled' = kept
          /\ UNCHANGED <<animationRef, rafCounter>>

\* ------------------------------------------------------------ a frame
\* A slip: the test of the registry's length left out.
SpawnsWhenFull(frame, powerUps) == frame % POWERUP_SPAWN_INTERVAL = 0

\* "Spawn power-ups"
Spawns(frame, powerUps) ==
  frame % POWERUP_SPAWN_INTERVAL = 0 /\ Len(powerUps) < MAX_POWERUPS

NoSpawn == [fx |-> 0, fy |-> 0, type |-> 1]

\* ballsRef.current = newBalls
Collect(st) == [k \in 1..Len(st.newBalls) |-> st.heap[st.newBalls[k]]]

\* The freezes of this frame that hit a ball still live at its end: the frame,
\* the ball's position at the end of the frame, and whether the ball had been
\* processed before the one that picked the power-up up.
Frozen(st, n0, frame) ==
  {[id |-> st.heap[j].id, frame |-> frame, x |-> st.heap[j].x, y |-> st.heap[j].y,
    before |-> j < st.hits[j]] :
     j \in {h \in 1..n0 : st.hits[h] # 0 /\ \E k \in 1..Len(st.newBalls) : st.newBalls[k] = h}}

gameLoop(cb, spawn) ==
  LET frame == frameCountRef + 1
      dim == cb.loop.dimensions
      n0 == Len(ballsRef)
      spawning == Spawns(frame, powerUpsRef)
      st0 == [heap |-> ballsRef, newBalls |-> <<>>, newTiles |-> tilesRef,
              hasChanges |-> FALSE,
              powerUps |-> IF spawning
                           THEN Append(powerUpsRef,
                                       spawnPowerUp(dim.width, dim.height,
                                                    powerUpIdCounter, spawn))
                           ELSE powerUpsRef,
              powerUpsToRemove |-> {}, ballIdCounter |-> ballIdCounter, rng |-> rng,
              moved |-> <<>>, bounced |-> <<>>, splits |-> <<>>, picked |-> <<>>,
              magnets |-> <<>>, converted |-> <<>>, tests |-> <<>>,
              hits |-> [j \in 1..n0 |-> 0], expired |-> {}, unGiant |-> {},
              skipped |-> {}, turned |-> {}]
  IN \E st \in {ProcessBalls(st0, 1, n0, dim, cb.loop.speedMultiplier, tilesRef)} :
       \E newTiles \in {IF st.hasChanges THEN st.newTiles ELSE tilesRef} :
         \* counts is countTiles() again, after the commit: the same grid, and so
         \* the same counts, when nothing changed
         \E preCounts \in {countTiles(tilesRef)} :
         \E counts \in {IF st.hasChanges THEN countTiles(newTiles) ELSE preCounts} :
           /\ frameCountRef' = frame
           /\ powerUpIdCounter' = IF spawning THEN powerUpIdCounter + 1 ELSE powerUpIdCounter
           /\ ballsRef' = Collect(st)
           /\ powerUpsRef' = st.powerUps
           /\ ballIdCounter' = st.ballIdCounter
           /\ rng' = st.rng
           /\ tilesRef' = newTiles
           /\ highScoresRef' =
                IF TracksHighScores(frame)
                THEN [left |-> UpdateHighScore(highScoresRef.left, counts.left),
                      right |-> UpdateHighScore(highScoresRef.right, counts.right)]
                ELSE highScoresRef
           /\ scheduled' = (scheduled \ {cb}) \cup {[handle |-> rafCounter, loop |-> cb.loop]}
           /\ animationRef' = rafCounter
           /\ rafCounter' = rafCounter + 1
           /\ obs' = [frame |-> frame, moved |-> st.moved,
                      bounced |-> st.bounced, splits |-> st.splits,
                      magnets |-> st.magnets, converted |-> st.converted,
                      tests |-> st.tests, picked |-> st.picked, expired |-> st.expired,
                      unGiant |-> st.unGiant, skipped |-> st.skipped,
                      turned |-> st.turned, before |-> n0,
                      startCounts |-> preCounts, startHigh |-> highScoresRef,
                      isAtHighScore |->
                        [t \in Team |-> IsAtHighScore(frame, t, preCounts, highScoresRef)],
                      resizedAt |-> obs.resizedAt]
           /\ born' = born \cup {[id |-> st.splits[k].clone, frame |-> frame] :
                                     k \in 1..Len(st.splits)}
           /\ frozenAt' =
                LET new == Frozen(st, n0, frame)
                    live == {st.heap[st.newBalls[k]].id : k \in 1..Len(st.newBalls)}
                IN {f \in frozenAt : f.id \in live /\ \A g \in new : g.id # f.id} \cup new
           /\ UNCHANGED <<dimensions, speedMultiplier, events>>

\* The animation scheduler runs a callback it holds; choices are the draws
\* spawnPowerUp may make, and last is the last frame looked at.
FrameOf(choices, last) ==
  /\ frameCountRef < last
  /\ \E cb \in scheduled :
       \E spawn \in (IF Spawns(frameCountRef + 1, powerUpsRef)
                     THEN choices ELSE {NoSpawn}) :
         gameLoop(cb, spawn)

Frame == FrameOf(SpawnChoices, MaxFrame)

\* ------------------------------------------------------------ the user
UserMayAct ==
  dimensions # ZeroDimensions /\ events < MaxEvents /\ frameCountRef = EventFrame

\* A slip: the test of ballsRef.current.length left out.
NeedsInitialBallsAgain(tileWidth, tileHeight, balls) ==
  tileWidth > 0 /\ tileHeight > 0

\* The effect on [tileWidth, tileHeight]: createInitialBalls when there are none.
NeedsInitialBalls(tileWidth, tileHeight, balls) ==
  tileWidth > 0 /\ tileHeight > 0 /\ Len(balls) = 0

\* updateDimensions: at the mount, and on every "resize" of the window; then
\* the render and its effects.
UpdateDimensionsOf(mounts, resizes) ==
  \E dim \in (IF dimensions = ZeroDimensions
              THEN mounts ELSE resizes \ {dimensions}) :
    /\ dimensions = ZeroDimensions \/ UserMayAct
    /\ dimensions' = dim
    /\ events' = IF dimensions = ZeroDimensions THEN events ELSE events + 1
    /\ LET tileWidth == dim.width \div COLS
           tileHeight == dim.height \div ROWS
       IN IF NeedsInitialBalls(tileWidth, tileHeight, ballsRef)
          THEN /\ ballsRef' = createInitialBalls(tileWidth, tileHeight, ballIdCounter, rng)
               /\ ballIdCounter' = ballIdCounter + 2
               /\ rng' = NextRandom(NextRandom(rng))
          ELSE UNCHANGED <<ballsRef, ballIdCounter, rng>>
    /\ Restart(dim, speedMultiplier)
    /\ obs' = [obs EXCEPT !.resizedAt =
                 IF dimensions = ZeroDimensions THEN @ ELSE frameCountRef]
    /\ UNCHANGED <<tilesRef, speedMultiplier, powerUpsRef, frameCountRef,
                   highScoresRef, powerUpIdCounter, born, frozenAt>>

UpdateDimensions == UpdateDimensionsOf(MountDimensions, ResizeDimensions)

\* The slider's onChange: setSpeedMultiplier, the render and its effects.
SetSpeedMultiplier ==
  \E speed \in SpeedChoices \ {speedMultiplier} :
    /\ UserMayAct
    /\ speedMultiplier' = speed
    /\ events' = events + 1
    /\ Restart(dimensions, speed)
    /\ UNCHANGED <<tilesRef, dimensions, ballsRef, powerUpsRef, frameCountRef,
                   highScoresRef, ballIdCounter, powerUpIdCounter, rng, obs, born,
                   frozenAt>>

Next == Frame \/ UpdateDimensions \/ SetSpeedMultiplier

Spec == Init /\ [][Next]_vars

\* ------------------------------------------------------------ a wider window
\* A window of 400 x 240 pixels that is never resized: tiles of 20 pixels,
\* agents of radius 8, and power-ups spawned at the left inset or near the
\* bottom edge.
WideDimensions == {[width |-> Px(400), height |-> Px(240)]}

WideSpawnChoices ==
  {[fx |-> p[1], fy |-> p[2], type |-> t] : p \in {<<0, 60>>, <<77, 99>>}, t \in 1..5}

FrameWide == FrameOf(WideSpawnChoices, MaxFrame)

MountWide == UpdateDimensionsOf(WideDimensions, {})

NextWide == FrameWide \/ MountWide \/ SetSpeedMultiplier

SpecWide == Init /\ [][NextWide]_vars

\* ------------------------------------------------------------ a longer game
\* The 400 x 240 window for four spawn frames, the slider left alone, with a
\* "speed" power-up spawned in the upper right corner, where no agent comes
\* in that time, or a power-up spawned near the bottom edge.
LongSpawnChoices ==
  {[fx |-> 100, fy |-> 10, type |-> 3]} \cup
  {[fx |-> 77, fy |-> 99, type |-> t] : t \in {1, 3}}

FrameLong == FrameOf(LongSpawnChoices, LongFrame)

NextLong == FrameLong \/ MountWide

SpecLong == Init /\ [][NextLong]_vars

\* ------------------------------------------------------------ properties
\* The live agents: ballsRef.current between two frames.
Live == {ballsRef[k] : k \in 1..Len(ballsRef)}

LiveIds == {b.id : b \in Live}

\* The pickups of the last frame.
Picked == {obs.picked[k] : k \in 1..Len(obs.picked)}

BouncedNow == {obs.bounced[k] : k \in 1..Len(obs.bounced)}

SplitsNow == {obs.splits[k] : k \in 1..Len(obs.splits)}

EvenSplit == (COLS * ROWS) \div 2

Larger(a, b) == IF a > b THEN a ELSE b

\* C1: at the end of a frame in which an agent picked up a
\* "freeze", every live agent of the other team has frozen = 180, whatever the
\* order of processing.
C1_OpponentsFrozenInFull ==
  \A p \in Picked :
    p.type = "freeze" =>
      \A b \in Live : b.team # p.team => b.frozen = POWERUP_DURATION

\* C2: an agent frozen by a "freeze" picked up in frame F is, at the end of
\* each of the frames F+1 .. F+180, where it was at the end of frame F (F
\* being the last freeze that hit it).
C2_FrozenFor180Frames ==
  \A f \in frozenAt : \A b \in Live :
    (b.id = f.id /\ frameCountRef - f.frame <= POWERUP_DURATION)
      => (b.x = f.x /\ b.y = f.y)

\* C3: a clone made in frame F is live at the end of each of the frames
\* F .. F+359 and is not at the end of frame F+360, nor ever after.
C3_CloneLivesFor360Frames ==
  \A c \in born :
    (c.id \in LiveIds) <=> (frameCountRef < c.frame + 2 * POWERUP_DURATION)

\* C3's case: the frame F+360, the clone gone.
C3_Witness ==
  \E c \in born :
    frameCountRef = c.frame + 2 * POWERUP_DURATION /\ c.id \notin LiveIds

\* C4: up to frame 600 both high scores are the even split, 120; after every
\* later frame a team's high score is the larger of its high score before the
\* frame and its count of the frame's grid.
C4_HighScores ==
  /\ frameCountRef <= HIGHSCORE_DELAY =>
       highScoresRef = [left |-> EvenSplit, right |-> EvenSplit]
  /\ frameCountRef > HIGHSCORE_DELAY =>
       LET counts == countTiles(tilesRef)
       IN \A t \in Team :
            /\ highScoresRef[t] = Larger(obs.startHigh[t], counts[t])
            /\ highScoresRef[t] >= obs.startHigh[t]
            /\ highScoresRef[t] >= counts[t]

\* C4's case: a frame after the 600th that raised a high score.
C4_Witness ==
  /\ frameCountRef > HIGHSCORE_DELAY
  /\ \E t \in Team : highScoresRef[t] > obs.startHigh[t] /\ obs.startHigh[t] >= EvenSplit

\* C5: the grid is 12 x 20, every cell is owned by one of the two teams, and
\* countTiles' counts add up to 240.
C5_GridOwnedByTheTwoTeams ==
  /\ DOMAIN tilesRef = 0..(ROWS - 1)
  /\ \A row \in 0..(ROWS - 1) :
       /\ DOMAIN tilesRef[row] = 0..(COLS - 1)
       /\ \A col \in 0..(COLS - 1) : tilesRef[row][col] \in Team
  /\ countTiles(tilesRef).left + countTiles(tilesRef).right = ROWS * COLS

\* C5's case: frames have converted cells of both halves.
C5_Witness ==
  /\ frameCountRef > 0
  /\ \E row \in 0..(ROWS - 1) : \E col \in 0..(COLS - 1) :
       2 * col < COLS /\ tilesRef[row][col] = "right"
  /\ \E row \in 0..(ROWS - 1) : \E col \in 0..(COLS - 1) :
       2 * col >= COLS /\ tilesRef[row][col] = "left"

\* C6: every live agent with a giant timer above 0 has the radius
\* 2.5 * baseRadius, and every other live agent has the radius baseRadius,
\* which is not 2.5 * baseRadius.
C6_GiantRadius ==
  \A b \in Live :
    /\ b.baseRadius > 0
    /\ b.giant > 0 => 2 * b.radius = 5 * b.baseRadius
    /\ b.giant = 0 => b.radius = b.baseRadius
    /\ b.giant >= 0

\* C6's case: the frame in which the giant timer of a frozen agent decayed
\* to 0.
C6_Witness ==
  \E b \in Live :
    b.id \in obs.unGiant /\ b.giant = 0 /\ b.radius = b.baseRadius /\ b.frozen > 0

\* C7: a frame's live set is the agents it started with, less the clones that
\* expired in it, plus one clone for each "split" it picked up; that clone has
\* isClone, the parent's team, cloneExpires 360 and the parent's velocity at
\* the pickup turned by a quarter (-vy, vx), at right angles to it; the parent
\* is live too.
C7_SplitAddsOneClone ==
  obs.frame > 0 =>
    /\ Len(ballsRef) = obs.before - Cardinality(obs.expired) + Len(obs.splits)
    /\ Cardinality(LiveIds) = Len(ballsRef)
    /\ \A e \in SplitsNow :
         /\ e.parent \in LiveIds
         /\ \E c \in Live :
              /\ c.id = e.clone /\ c.isClone /\ c.team = e.team
              /\ c.cloneExpires = 2 * POWERUP_DURATION
              /\ c.vx = -e.vy /\ c.vy = e.vx
              /\ c.vx * e.vx + c.vy * e.vy = 0

\* C7's case: a frame that picked a "split" up, the parent moving on a slant.
C7_Witness ==
  \E e \in SplitsNow : e.vx # 0 /\ e.vy # 0 /\ e.clone \in LiveIds

\* C8: right after "Boundary collision" the agent is within
\* [radius, width - radius] x [radius, height - radius], and the velocity
\* along a clamped axis points inward.
C8_InsideAfterBounce ==
  \A e \in BouncedNow :
    /\ e.radius <= e.x /\ e.x <= e.width - e.radius
    /\ e.radius <= e.y /\ e.y <= e.height - e.radius
    /\ e.left => e.vx > 0
    /\ e.right => e.vx < 0
    /\ e.top => e.vy > 0
    /\ e.bottom => e.vy < 0

\* C8 (amended): ... along each axis on which the world is at least two radii
\* long, the agent is within [radius, length - radius], and the velocity
\* along that axis, when it was clamped, does not point outward.
C8_InsideAfterBounceWhenItFits ==
  \A e \in BouncedNow :
    /\ e.width >= 2 * e.radius =>
         /\ e.radius <= e.x /\ e.x <= e.width - e.radius
         /\ e.left => (e.vx >= 0 /\ e.x = e.radius)
         /\ e.right => (e.vx <= 0 /\ e.x = e.width - e.radius)
         /\ ~(e.left /\ e.right)
    /\ e.height >= 2 * e.radius =>
         /\ e.radius <= e.y /\ e.y <= e.height - e.radius
         /\ e.top => (e.vy >= 0 /\ e.y = e.radius)
         /\ e.bottom => (e.vy <= 0 /\ e.y = e.height - e.radius)
         /\ ~(e.top /\ e.bottom)

\* C8's case: an agent clamped at the right or the bottom edge of a world it
\* fits in.
C8_Witness ==
  \E e \in BouncedNow :
    /\ e.width >= 2 * e.radius /\ e.height >= 2 * e.radius
    /\ (e.right \/ e.bottom)

\* C9: after frame 600 a team's flag is true exactly when its count of the
\* frame's grid is at or above its high-score mark of the frame (the grid
\* and the marks as the frame leaves them); up to frame 600 it is false.
C9_FlagOfThisFramesGrid ==
  obs.frame > 0 =>
    \A t \in Team :
      obs.isAtHighScore[t] <=>
        (obs.frame > HIGHSCORE_DELAY /\ countTiles(tilesRef)[t] >= highScoresRef[t])

\* C9 (amended): ... its count of the grid the frame started with is at or
\* above its high-score mark at the start of the frame; up to frame 600 it
\* is false.
C9_FlagOfThePreviousGrid ==
  \A t \in Team :
    obs.isAtHighScore[t] <=>
      (obs.frame > HIGHSCORE_DELAY /\ obs.startCounts[t] >= obs.startHigh[t])

\* C9's case: after frame 600, one team at its mark and the other below.
C9_Witness ==
  /\ obs.frame > HIGHSCORE_DELAY
  /\ \E t, u \in Team : obs.isAtHighScore[t] /\ ~obs.isAtHighScore[u]

\* C10: when the agents exist, a step that changes the dimensions leaves the
\* grid, the agents, the power-ups, the frame counter and the high scores as
\* they were, and leaves one gameLoop scheduled, which sees the new
\* dimensions.
C10_ResizeKeepsTheGame ==
  [][(Len(ballsRef) > 0 /\ dimensions' # dimensions) =>
       /\ tilesRef' = tilesRef /\ ballsRef' = ballsRef
       /\ powerUpsRef' = powerUpsRef /\ frameCountRef' = frameCountRef
       /\ highScoresRef' = highScoresRef
       /\ ballIdCounter' = ballIdCounter /\ powerUpIdCounter' = powerUpIdCounter
       /\ Cardinality(scheduled') = 1
       /\ \A cb \in scheduled' :
            cb.handle = animationRef' /\ cb.loop.dimensions = dimensions']_vars

\* C10's case: frames run after a resize that found agents and power-ups.
C10_Witness ==
  /\ obs.resizedAt > 0 /\ frameCountRef > obs.resizedAt + 1
  /\ Len(powerUpsRef) > 0 /\ Len(ballsRef) > Cardinality(Team)
  /\ \E e \in BouncedNow : e.width = dimensions.width /\ e.height = dimensions.height

MovedNow == {obs.moved[k] : k \in 1..Len(obs.moved)}

\* C11: the frame moves a non-frozen agent, before the boundary collision, by
\* its velocity times 2.5 when its speed timer is above 0 after the decay and
\* times 1 otherwise, times the slider's value as the gameLoop saw it, which
\* is the slider's value for every gameLoop scheduled; after the first frame
\* the starting agents' x has changed by vx times the slider's value.
C11_EulerStep ==
  /\ \A e \in MovedNow :
       LET factor == IF e.speed > 0 THEN 25 ELSE 10
       IN /\ 100 * (e.toX - e.fromX) = e.vx * factor * e.speedMultiplier
          /\ 100 * (e.toY - e.fromY) = e.vy * factor * e.speedMultiplier
  /\ \A cb \in scheduled : cb.loop.speedMultiplier = speedMultiplier
  /\ obs.frame > 0 =>
       \A b \in Live :
         b.id \notin {e.clone : e \in SplitsNow} =>
           ((b.id \in {e.id : e \in MovedNow}) <=> (b.id \notin obs.skipped))
  /\ frameCountRef = 1 =>
       /\ Len(ballsRef) = 2
       /\ 40 * ballsRef[1].x = 10 * dimensions.width + 4 * Px(BASE_SPEED) * speedMultiplier
       /\ 40 * ballsRef[2].x = 30 * dimensions.width - 4 * Px(BASE_SPEED) * speedMultiplier

\* C11's case: an agent with the speed effect moved under a slider off 1.
C11_Witness ==
  \E e \in MovedNow : e.speed > 0 /\ e.speedMultiplier # 10 /\ e.vx # 0 /\ e.vy # 0


MagnetsNow == {obs.magnets[k] : k \in 1..Len(obs.magnets)}

\* C12: a "magnet" sets the picker's velocity along the line from the picker
\* to (0.75 * width, height / 2) when its team is left and to
\* (0.25 * width, height / 2) when it is right, 1.5 * BASE_SPEED times the
\* unit vector's x and 0.5 * BASE_SPEED times its y (to the model's 0.04 px);
\* the velocity of every other agent is as before the pickup.
C12_MagnetAimsAtEnemyHalf ==
  \A e \in MagnetsNow :
    LET targetX == IF e.team = "left" THEN 3 * e.width ELSE e.width
        dx == targetX \div 4 - e.x
        dy == e.height \div 2 - e.y
        dist == Sqrt(dx * dx + dy * dy)
        v == e.after[e.index]
    IN /\ dist > 0 =>
            /\ Abs(v[1] * dist - ((3 * Px(BASE_SPEED)) \div 2) * dx) <= 4 * dist
            /\ Abs(v[2] * dist - (Px(BASE_SPEED) \div 2) * dy) <= 4 * dist
       /\ \A j \in DOMAIN e.before : j # e.index => e.after[j] = e.before[j]


ConvertedNow == {obs.converted[k] : k \in 1..Len(obs.converted)}

\* C13: an agent's heading is randomized in a frame exactly when its center
\* cell is in the grid and was, in the grid as it stood when the agent
\* converted, owned by the other team.
C13_TurnsOnOwnConversion ==
  \A e \in ConvertedNow :
    e.turned <=> (InGrid(e.row, e.col) /\ e.owner # e.team)


\* C14: after every frame, the dimensions of the world being fixed, every live
\* agent is within [radius, width - radius] x [radius, height - radius] for
\* the radius it has then.
C14_InsideAtFrameEnd ==
  \A b \in Live :
    /\ b.radius <= b.x /\ b.x <= dimensions.width - b.radius
    /\ b.radius <= b.y /\ b.y <= dimensions.height - b.radius


\* The cells an agent of the record e converts: its cell, or the 3 x 3 block
\* around it when it is giant.
Covers(e, row, col) ==
  LET reach == IF e.giant THEN 2 ELSE 1
  IN Abs(row - e.row) < reach /\ Abs(col - e.col) < reach

\* C15: a frame leaves every cell to the team of the last processed agent that
\* covers it (the agent's cell, the floor of its center over the tile pitch,
\* and with a giant timer above 0 the 3 x 3 block around it, as far as it
\* lies in the grid), and to its owner when no agent covers it.
C15_FootprintsDecideOwners ==
  [][frameCountRef' # frameCountRef =>
       /\ \A k \in 1..Len(obs'.converted) : \A b \in {ballsRef'[j] : j \in 1..Len(ballsRef')} :
            LET e == obs'.converted[k]
            IN b.id = e.id =>
                 /\ e.giant = (b.giant > 0)
                 /\ e.col * dimensions.width <= b.x * COLS
                 /\ b.x * COLS < (e.col + 1) * dimensions.width
                 /\ e.row * dimensions.height <= b.y * ROWS
                 /\ b.y * ROWS < (e.row + 1) * dimensions.height
       /\ \A row \in 0..(ROWS - 1) : \A col \in 0..(COLS - 1) :
            LET covering == {k \in 1..Len(obs'.converted) :
                               Covers(obs'.converted[k], row, col)}
            IN tilesRef'[row][col] =
                 IF covering = {} THEN tilesRef[row][col]
                 ELSE obs'.converted[CHOOSE k \in covering : \A j \in covering : j <= k].team
  ]_vars

\* C15's case: a giant agent at the edge of the grid and an agent of the other
\* team, processed later, on a cell of its block.
C15_Witness ==
  \E k1, k2 \in 1..Len(obs.converted) :
    LET e1 == obs.converted[k1]
        e2 == obs.converted[k2]
    IN /\ k1 < k2 /\ e1.team # e2.team /\ e1.giant
       /\ InGrid(e2.row, e2.col) /\ Covers(e1, e2.row, e2.col)
       /\ (e1.row = 0 \/ e1.row = ROWS - 1 \/ e1.col = 0 \/ e1.col = COLS - 1)
       /\ tilesRef[e2.row][e2.col] = e2.team


\* ---------------------------------------------------------------- C16
Ids(powerUps) == {powerUps[k].id : k \in DOMAIN powerUps}

\* The power-ups a frame's record says were consumed, and by whom.
HitsOf(tests) == {k \in DOMAIN tests : tests[k].hit}

\* C16: in a frame, every agent that moves tests each power-up still in the
\* registry exactly once, in the order the agents are processed; a test
\* consumes the power-up exactly when its distance to the agent's centre is
\* below the agent's radius plus 14 pixels; a consumed power-up is tested by
\* no later agent and is gone from the registry after the frame, so that no
\* power-up is consumed twice; and each consumption applies its effect once
\* (one clone per "split", one re-aim per "magnet", the full timer for
\* "giant" and "speed", the opponents frozen for "freeze").
C16_EachPowerUpConsumedOnce ==
  [][frameCountRef' # frameCountRef =>
      LET tests == obs'.tests
          hits == HitsOf(tests)
          start == Ids(powerUpsRef) \cup
                   (IF powerUpIdCounter' # powerUpIdCounter THEN {powerUpIdCounter} ELSE {})
          order == obs'.moved
          takenBefore(k) == {tests[t].powerUp : t \in {h \in hits :
                               \E j \in 1..(k - 1) : order[j].id = tests[h].ball}}
          by(id) == {t \in DOMAIN tests : tests[t].ball = id}
      IN /\ \A t \in DOMAIN tests :
              LET reach == tests[t].radius + Px(PICKUP_MARGIN)
              IN tests[t].hit <=>
                   tests[t].dx * tests[t].dx + tests[t].dy * tests[t].dy < reach * reach
         /\ \A t \in DOMAIN tests : \E k \in DOMAIN order : order[k].id = tests[t].ball
         /\ \A k \in DOMAIN order :
              /\ {tests[t].powerUp : t \in by(order[k].id)} = start \ takenBefore(k)
              /\ Cardinality(by(order[k].id)) = Cardinality(start \ takenBefore(k))
         /\ \A t, u \in hits : tests[t].powerUp = tests[u].powerUp => t = u
         /\ Ids(powerUpsRef') = start \ {tests[t].powerUp : t \in hits}
         /\ Len(powerUpsRef') = Cardinality(Ids(powerUpsRef'))
         /\ \A id \in Ids(powerUpsRef') : id < powerUpIdCounter'
         /\ Len(obs'.picked) = Cardinality(hits)
         /\ Len(obs'.splits) = Cardinality({t \in hits : tests[t].type = "split"})
         /\ ballIdCounter' = ballIdCounter + Len(obs'.splits)
         /\ Len(ballsRef') = Len(ballsRef) - Cardinality(obs'.expired) + Len(obs'.splits)
         /\ Len(obs'.magnets) = Cardinality({t \in hits : tests[t].type = "magnet"})
         /\ \A t \in hits : \A k \in DOMAIN ballsRef' :
              LET b == ballsRef'[k]
              IN /\ (tests[t].type = "giant" /\ b.id = tests[t].ball) =>
                      b.giant = POWERUP_DURATION
                 /\ (tests[t].type = "speed" /\ b.id = tests[t].ball) =>
                      b.speed = POWERUP_DURATION
                 /\ (tests[t].type = "freeze" /\ b.id < ballIdCounter
                       /\ \E p \in DOMAIN ballsRef' :
                            /\ ballsRef'[p].id = tests[t].ball
                            /\ ballsRef'[p].team # b.team) =>
                      b.frozen >= POWERUP_DURATION - 1]_vars

\* An agent consumes two power-ups in one frame, both of which another agent
\* tested and missed in that frame, and the registry is empty afterwards.
C16_Witness ==
  /\ \E t, u \in HitsOf(obs.tests) :
       /\ t # u
       /\ obs.tests[t].ball = obs.tests[u].ball
       /\ \E m, n \in DOMAIN obs.tests \ HitsOf(obs.tests) :
            /\ obs.tests[m].powerUp = obs.tests[t].powerUp
            /\ obs.tests[n].powerUp = obs.tests[u].powerUp
  /\ powerUpsRef = <<>>


\* ---------------------------------------------------------------- C17
\* C17: a frame spawns a power-up exactly when its index (the counter after
\* the increment) is a multiple of 300 and the registry holds fewer than 3
\* power-ups when the frame starts; it spawns at most one; a power-up leaves
\* the registry only by a pickup of that frame, and no other step touches the
\* registry; the registry never holds more than 3 power-ups.
C17_SpawnEvery300UpToThree ==
  /\ [](Len(powerUpsRef) <= MAX_POWERUPS)
  /\ [][/\ frameCountRef' = frameCountRef => powerUpsRef' = powerUpsRef
        /\ frameCountRef' # frameCountRef =>
             LET spawned == {powerUpsRef'[k] : k \in DOMAIN powerUpsRef'} \
                              {powerUpsRef[k] : k \in DOMAIN powerUpsRef}
                 consumed == {obs'.picked[k].powerUp : k \in DOMAIN obs'.picked}
                 issued == powerUpIdCounter' - powerUpIdCounter
                 due == /\ frameCountRef' % POWERUP_SPAWN_INTERVAL = 0
                        /\ Len(powerUpsRef) < MAX_POWERUPS
             IN /\ issued = (IF due THEN 1 ELSE 0)
                /\ \A p \in spawned : issued = 1 /\ p.id = powerUpIdCounter
                /\ issued = 1 =>
                     \/ powerUpIdCounter \in consumed
                     \/ \E p \in spawned : p.id = powerUpIdCounter
                /\ \A k \in DOMAIN powerUpsRef :
                     powerUpsRef[k].id \notin consumed =>
                       \E j \in DOMAIN powerUpsRef' : powerUpsRef'[j] = powerUpsRef[k]
                /\ Len(powerUpsRef') =
                     Len(powerUpsRef) + issued
                       - Cardinality(consumed \cap (Ids(powerUpsRef) \cup {powerUpIdCounter}))
       ]_vars

\* A frame whose index is a multiple of 300 ends with a full registry and
\* without having spawned: fewer power-ups were issued than spawn frames
\* have passed.
C17_Witness ==
  /\ frameCountRef > 0
  /\ frameCountRef % POWERUP_SPAWN_INTERVAL = 0
  /\ Len(powerUpsRef) = MAX_POWERUPS
  /\ powerUpIdCounter < frameCountRef \div POWERUP_SPAWN_INTERVAL


\* ---------------------------------------------------------------- C18
\* The agents whose frozen timer is above 0 after the decay of the frame
\* being taken: those that start it with a timer of 2 or more, and those an
\* agent processed before them freezes in it; a clone that expires in the
\* frame never reaches the decay.
StaysFrozen(b) ==
  /\ ~(b.isClone /\ b.cloneExpires = 1)
  /\ \/ b.frozen >= 2
     \/ \E f \in frozenAt' : f.id = b.id /\ f.frame = frameCountRef' /\ ~f.before

\* C18: an agent whose frozen timer is above 0 after a frame's decay keeps
\* its position and velocity in that frame, tests and consumes no power-up,
\* converts no tile, makes no clone and is live after the frame; its giant
\* and speed timers go down by one (the radius returning to the base radius
\* when the giant timer reaches 0), its frozen timer goes down by one unless
\* a freeze of the frame sets it again, and its position is pushed on its
\* trail, which keeps its last TRAIL_LENGTH entries.
C18_FrozenAgentsOnlyAge ==
  [][frameCountRef' # frameCountRef =>
      \A k \in DOMAIN ballsRef :
        LET b == ballsRef[k]
            pushed == Append(b.trail, <<b.x, b.y>>)
        IN StaysFrozen(b) =>
             \E j \in DOMAIN ballsRef' :
               LET a == ballsRef'[j]
               IN /\ a.id = b.id
                  /\ a.x = b.x /\ a.y = b.y /\ a.vx = b.vx /\ a.vy = b.vy
                  /\ a.team = b.team /\ a.baseRadius = b.baseRadius
                  /\ a.giant = (IF b.giant > 0 THEN b.giant - 1 ELSE 0)
                  /\ a.speed = (IF b.speed > 0 THEN b.speed - 1 ELSE 0)
                  /\ a.radius = (IF b.giant = 1 THEN b.baseRadius ELSE b.radius)
                  /\ \/ a.frozen = b.frozen - 1
                     \/ /\ \E f \in frozenAt' : f.id = b.id /\ f.frame = frameCountRef'
                        /\ a.frozen \in {POWERUP_DURATION - 1, POWERUP_DURATION}
                  /\ a.frozen > 0
                  /\ a.trail = (IF Len(pushed) > TRAIL_LENGTH THEN Tail(pushed) ELSE pushed)
                  /\ \A t \in DOMAIN obs'.tests : obs'.tests[t].ball # b.id
                  /\ \A t \in DOMAIN obs'.picked : obs'.picked[t].ball # b.id
                  /\ \A t \in DOMAIN obs'.moved : obs'.moved[t].id # b.id
                  /\ \A t \in DOMAIN obs'.converted : obs'.converted[t].id # b.id
                  /\ \A t \in DOMAIN obs'.splits : obs'.splits[t].parent # b.id
                  /\ b.id \in obs'.skipped]_vars

\* A giant agent in the middle of a freeze, skipped by the frame, while an
\* agent of the other team moved and converted a tile.
C18_Witness ==
  /\ \E b \in Live :
       /\ b.id \in obs.skipped
       /\ b.frozen > 0 /\ b.frozen < POWERUP_DURATION - 1
       /\ b.giant > 0
       /\ Len(b.trail) = TRAIL_LENGTH
  /\ \E e \in ConvertedNow : e.id \notin obs.skipped /\ e.owner # e.team /\ e.owner # "none"


\* ---------------------------------------------------------------- C19
\* The live set between two frames, once the game has started.
LiveSetWellFormed ==
  /\ \A t \in Team :
       Cardinality({k \in DOMAIN ballsRef :
                      ~ballsRef[k].isClone /\ ballsRef[k].team = t}) = 1
  /\ \A b \in Live :
       IF b.isClone
       THEN /\ b.cloneExpires > 0
            /\ \E c \in born : c.id = b.id
       ELSE /\ b.id \in {0, 1}
            /\ \A c \in born : c.id # b.id
  /\ Cardinality(LiveIds) = Len(ballsRef)
  /\ \A b \in Live : b.id < ballIdCounter

\* C19: once the game has started, the live set holds exactly one non-clone
\* agent per team, the two made at startup; every other live agent is a clone
\* with cloneExpires above 0; the live agents have distinct ids; an agent
\* leaves the live set only in a frame, and only as a clone whose countdown
\* reaches 0 in it; an agent enters it only at startup or as the clone of a
\* "split" pickup of the frame, with the team of the agent that picked it up
\* and an id that no agent had before; no agent ever changes team or kind.
C19_OnlyExpiredClonesLeave ==
  /\ [](ballsRef # <<>> => LiveSetWellFormed)
  /\ [](frameCountRef > 0 => ballsRef # <<>>)
  /\ [][LET ids == {ballsRef[k].id : k \in DOMAIN ballsRef}
            ids2 == {ballsRef'[k].id : k \in DOMAIN ballsRef'}
        IN /\ ballIdCounter' >= ballIdCounter
           /\ \A k \in DOMAIN ballsRef' :
                ballsRef'[k].id \notin ids =>
                  /\ ballsRef'[k].id >= ballIdCounter
                  /\ ballsRef'[k].id < ballIdCounter'
           /\ \A k \in DOMAIN ballsRef : \A j \in DOMAIN ballsRef' :
                ballsRef'[j].id = ballsRef[k].id =>
                  /\ ballsRef'[j].team = ballsRef[k].team
                  /\ ballsRef'[j].isClone = ballsRef[k].isClone
           /\ frameCountRef' = frameCountRef =>
                /\ ids \subseteq ids2
                /\ ids # {} => ballsRef' = ballsRef
                /\ \A k \in DOMAIN ballsRef' :
                     ballsRef'[k].id \notin ids => ~ballsRef'[k].isClone
           /\ frameCountRef' # frameCountRef =>
                /\ \A k \in DOMAIN ballsRef :
                     (ballsRef[k].id \notin ids2) <=>
                       (ballsRef[k].isClone /\ ballsRef[k].cloneExpires = 1)
                /\ \A k \in DOMAIN ballsRef' :
                     ballsRef'[k].id \notin ids =>
                       /\ ballsRef'[k].isClone
                       /\ \E s \in DOMAIN obs'.splits :
                            /\ obs'.splits[s].clone = ballsRef'[k].id
                            /\ obs'.splits[s].team = ballsRef'[k].team
                            /\ \E p \in DOMAIN obs'.picked :
                                 /\ obs'.picked[p].type = "split"
                                 /\ obs'.picked[p].ball = obs'.splits[s].parent
                            /\ \E j \in DOMAIN ballsRef' :
                                 /\ ballsRef'[j].id = obs'.splits[s].parent
                                 /\ ballsRef'[j].team = ballsRef'[k].team
       ]_vars

\* A frame in which a clone has just left while a younger clone, of an id
\* above the one that left, is live next to the two startup agents.
C19_Witness ==
  /\ obs.expired # {}
  /\ \E b \in Live : b.isClone /\ \A id \in obs.expired : id < b.id
  /\ Len(ballsRef) = 3


\* ---------------------------------------------------------------- C20
\* C20: the animation scheduler never holds more than one gameLoop callback;
\* once the world has a size it holds exactly one, the one animationRef
\* names, closed over the current dimensions and slider value; every handle
\* issued has been run, is pending, or was cancelled by the one resize or
\* slider change that replaced it.  A frame advances the frame counter by
\* exactly one and moves the agents with the slider value of that moment; a
\* resize or a slider change runs no frame: it leaves the counter, the grid,
\* the power-ups and the marks alone, and the agents too once they exist.
C20_OneLoopScheduled ==
  /\ [](Cardinality(scheduled) <= 1)
  /\ [](dimensions # ZeroDimensions =>
          /\ scheduled = {[handle |-> animationRef,
                           loop |-> GameLoop(dimensions, speedMultiplier)]}
          /\ rafCounter - 1 = frameCountRef + Cardinality(scheduled) + events)
  /\ [][/\ frameCountRef' # frameCountRef =>
             /\ frameCountRef' = frameCountRef + 1
             /\ obs'.frame = frameCountRef'
             /\ speedMultiplier' = speedMultiplier /\ dimensions' = dimensions
             /\ \A k \in DOMAIN obs'.moved :
                  obs'.moved[k].speedMultiplier = speedMultiplier
             /\ \A cb \in scheduled : cb \notin scheduled'
        /\ frameCountRef' = frameCountRef =>
             /\ speedMultiplier' # speedMultiplier \/ dimensions' # dimensions
             /\ tilesRef' = tilesRef /\ powerUpsRef' = powerUpsRef
             /\ highScoresRef' = highScoresRef
             /\ ballsRef # <<>> => ballsRef' = ballsRef
             /\ \A cb \in scheduled : cb \notin scheduled'
       ]_vars

\* A frame run with a slider value set after the start: one callback is
\* pending, and one more handle was issued than frames run and pending,
\* the one the slider change cancelled.
C20_Witness ==
  /\ speedMultiplier # 10
  /\ obs.frame = frameCountRef
  /\ \E e \in MovedNow : e.speedMultiplier = speedMultiplier
  /\ Cardinality(scheduled) = 1
  /\ rafCounter - 1 = frameCountRef + 2


\* ---------------------------------------------------------------- C21
\* A timer after one frame's decay.
Decayed(timer) == IF timer > 0 THEN timer - 1 ELSE 0

\* C21: in every reachable state the frozen, giant and speed timers of every
\* live agent lie in 0..180 and cloneExpires in 0..360.  Over a frame, for
\* every agent live before and after it, each of the three timers ends one
\* lower than it started (or at 0), whatever the other timers are, unless the
\* effect was applied to the agent in that frame: then the timer ends at 180,
\* whatever was left of it -- or at 179 for an agent frozen by one processed
\* before it, whose decay comes after the freeze.  A clone's cloneExpires
\* ends one lower, and a new clone starts at 360 with the three timers at 0.
C21_TimersCountDown ==
  /\ [](\A b \in Live :
          /\ b.frozen \in 0..POWERUP_DURATION
          /\ b.giant \in 0..POWERUP_DURATION
          /\ b.speed \in 0..POWERUP_DURATION
          /\ b.cloneExpires \in 0..CloneLifetime)
  /\ [][frameCountRef' # frameCountRef =>
          \A j \in DOMAIN ballsRef' :
            LET a == ballsRef'[j]
                olds == {k \in DOMAIN ballsRef : ballsRef[k].id = a.id}
                took(type) == \E p \in DOMAIN obs'.picked :
                                obs'.picked[p].ball = a.id /\ obs'.picked[p].type = type
                freezes == {f \in frozenAt' : f.id = a.id /\ f.frame = frameCountRef'}
            IN /\ olds = {} =>
                    /\ a.isClone /\ a.cloneExpires = CloneLifetime
                    /\ a.frozen = 0 /\ a.giant = 0 /\ a.speed = 0
               /\ \A k \in olds :
                    LET b == ballsRef[k]
                    IN /\ a.giant = (IF took("giant") THEN POWERUP_DURATION
                                     ELSE Decayed(b.giant))
                       /\ a.speed = (IF took("speed") THEN POWERUP_DURATION
                                     ELSE Decayed(b.speed))
                       /\ a.frozen =
                            (IF freezes = {} THEN Decayed(b.frozen)
                             ELSE IF \E f \in freezes : f.before THEN POWERUP_DURATION
                             ELSE POWERUP_DURATION - 1)
                       /\ a.cloneExpires = (IF b.isClone THEN b.cloneExpires - 1 ELSE 0)
       ]_vars

\* An agent picks up the effect it still has some of, and ends the frame
\* with the timer at 180, while the timer of its other effect went one down.
C21_Witness ==
  \E t \in HitsOf(obs.tests) : \E b \in Live :
    /\ b.id = obs.tests[t].ball
    /\ \/ /\ obs.tests[t].type = "giant"
          /\ obs.tests[t].giant \in 1..(POWERUP_DURATION - 1)
          /\ b.giant = POWERUP_DURATION
       \/ /\ obs.tests[t].type = "speed"
          /\ obs.tests[t].speed \in 1..(POWERUP_DURATION - 1)
          /\ b.speed = POWERUP_DURATION

=============================================================================
